---- MODULE Spec2Model ----
(***************************************************************************)
(* Model of cmdstanpy/utils.py: the stan_csv scanner (check_csv,           *)
(* scan_stan_csv and its five sub-scans) and the Rdump codec (rdump,       *)
(* rload, parse_rdump_value, read_metric).                                 *)
(*                                                                         *)
(* A text file is a sequence of lines.  A line of a stan_csv file is a     *)
(* record that stands for its text; the operators below compute what the   *)
(* code's string operations (strip, startswith, split, ...) return on it.  *)
(***************************************************************************)
EXTENDS Integers, Sequences, FiniteSets, TLC

VARIABLES
    file,           \* the stan_csv file: a sequence of lines
    is_sampling,    \* check_csv argument
    is_optimizing,  \* check_csv argument
    pos,            \* fp's cursor: the number of lines before it
    lineno,         \* scan_stan_csv's lineno
    dict,           \* scan_stan_csv's dict (config_dict of the sub-scans)
    pc,             \* which call of check_csv / scan_stan_csv comes next
    err,            \* the exception that ended check_csv, or NoErr
    pre,            \* the calls made so far, each with the cursor, lineno and dict it got
    data,           \* rdump's argument: a mapping name -> value
    text,           \* the dump file: a sequence of lines of tokens
    loaded,         \* what rload returned
    mfile,          \* the metric file handed to read_metric
    dims,           \* what read_metric returned
    dpc,            \* which codec call comes next
    derr            \* the exception that ended the codec call, or NoErr

csvVars == <<file, is_sampling, is_optimizing, pos, lineno, dict, pc, err, pre>>
dumpVars == <<data, text, loaded, mfile, dims, dpc, derr>>
vars == <<file, is_sampling, is_optimizing, pos, lineno, dict, pc, err, pre,
          data, text, loaded, mfile, dims, dpc, derr>>

(***************************************************************************)
(* Bounds of the model.                                                    *)
(***************************************************************************)
MaxCols == 3
MaxWarm == 2
MaxDraws == 2
MaxSamples == 3

(***************************************************************************)
(* Python exceptions.                                                      *)
(***************************************************************************)
NoErr == [type |-> "none", msg |-> "", lineno |-> 0, expected |-> 0, found |-> 0]

ValueError(m, ln, e, f) ==
    [type |-> "ValueError", msg |-> m, lineno |-> ln, expected |-> e, found |-> f]

TypeError(m) ==
    [type |-> "TypeError", msg |-> m, lineno |-> 0, expected |-> 0, found |-> 0]

(***************************************************************************)
(* Lines of a stan_csv file.                                               *)
(*   cfg    "# key = val" (dflt: the line ends with "(Default)")           *)
(*   note   "# text" without "=" or ","                                    *)
(*   adapt  "# Adaptation terminated"                                      *)
(*   step   "# Step size = val" (num: val parses as a float)               *)
(*   diag   "# Diagonal elements of inverse mass matrix:"                  *)
(*   dense  "# Elements of inverse mass matrix:"                           *)
(*   mat    "# v1, ..., vn"                                                *)
(*   row    "f1,...,fn" (num: every field parses as a float)               *)
(*   blank  a line of white space only                                     *)
(***************************************************************************)
Cfg(k, v, d) == [kind |-> "cfg", key |-> k, val |-> v, dflt |-> d, n |-> 1, num |-> FALSE]
Note == [kind |-> "note", key |-> "", val |-> "", dflt |-> FALSE, n |-> 1, num |-> FALSE]
Adapt == [kind |-> "adapt", key |-> "", val |-> "", dflt |-> FALSE, n |-> 1, num |-> FALSE]
Step(ok) == [kind |-> "step", key |-> "Step size", val |-> IF ok THEN "0.9" ELSE "abc",
             dflt |-> FALSE, n |-> 1, num |-> ok]
DiagLabel == [kind |-> "diag", key |-> "", val |-> "", dflt |-> FALSE, n |-> 1, num |-> FALSE]
DenseLabel == [kind |-> "dense", key |-> "", val |-> "", dflt |-> FALSE, n |-> 1, num |-> FALSE]
Mat(n) == [kind |-> "mat", key |-> "", val |-> "", dflt |-> FALSE, n |-> n, num |-> TRUE]
Row(n, num) == [kind |-> "row", key |-> "", val |-> "", dflt |-> FALSE, n |-> n, num |-> num]
Blank == [kind |-> "blank", key |-> "", val |-> "", dflt |-> FALSE, n |-> 1, num |-> FALSE]

\* len(line.strip()) > 0
NonEmpty(line) == line.kind # "blank"

\* line.strip().startswith('#')
StartsWithHash(line) == line.kind \in {"cfg", "note", "adapt", "step", "diag", "dense", "mat"}

\* line.endswith('(Default)')
EndsWithDefault(line) == line.kind = "cfg" /\ line.dflt

\* len(line.split('='))
NumEqParts(line) == IF line.kind \in {"cfg", "step"} THEN 2 ELSE 1

\* len(line.split(',')), with or without the leading " #\t" stripped
NumFields(line) == IF line.kind \in {"row", "mat"} THEN line.n ELSE 1

\* line.split(','): the fields of the line
Fields(line) == [i \in 1..NumFields(line) |-> IF line.num THEN "0.5" ELSE "txt"]

\* key_val[1].endswith('csv')
EndsWithCsv(v) == v = "output.csv"

\* fp.readline(): the line at the cursor; '' at the end of the file, which no string
\* operation of the scanner tells from a blank line
ReadLine(f, p) == IF p < Len(f) THEN f[p + 1] ELSE Blank

\* fp.tell() after fp.readline() at cursor p
Tell(f, p) == IF p < Len(f) THEN p + 1 ELSE p

\* fp.seek(cur_pos) with the cursor at `at`
SeekOmitted(at, cur_pos) == at

Seek(at, cur_pos) == cur_pos

\* dict with dict[k] = v
Put(d, k, v) == [x \in DOMAIN d \cup {k} |-> IF x = k THEN v ELSE d[x]]

EmptyDict == [x \in {} |-> 0]

(***************************************************************************)
(* Python values held by config_dict: str, int, tuple, ndarray and None.   *)
(***************************************************************************)
Str(s) == [ty |-> "str", s |-> s, n |-> 0, seq |-> <<>>]
IntV(n) == [ty |-> "int", s |-> "", n |-> n, seq |-> <<>>]
TupleV(q) == [ty |-> "tuple", s |-> "", n |-> 0, seq |-> q]
ArrayV(q) == [ty |-> "ndarray", s |-> "", n |-> 0, seq |-> q]
NoneV == [ty |-> "None", s |-> "", n |-> 0, seq |-> <<>>]

\* the decimal numerals the files of the model hold
Digits == <<"1", "2", "3", "4", "5", "6">>

IsNumeral(s) == \E n \in 1..Len(Digits) : Digits[n] = s

\* int(v) for a str or an int v
PyInt(v) == IF v.ty = "int" THEN v.n ELSE CHOOSE n \in 1..Len(Digits) : Digits[n] = v.s

(***************************************************************************)
(* scan_config                                                             *)
(***************************************************************************)
\* the body of scan_config's loop on one comment line
ConfigEntry(d, line) ==
    IF EndsWithDefault(line) \/ NumEqParts(line) # 2 THEN d
    ELSE IF line.key = "file" /\ ~EndsWithCsv(line.val) THEN Put(d, "data_file", Str(line.val))
    ELSE IF line.key # "file" THEN Put(d, line.key, Str(line.val))
    ELSE d

RECURSIVE ConfigLoop(_, _, _, _)
ConfigLoop(f, cur_pos, ln, d) ==
    LET line == ReadLine(f, cur_pos) IN
    IF NonEmpty(line) /\ StartsWithHash(line)
    THEN ConfigLoop(f, Tell(f, cur_pos), ln + 1, ConfigEntry(d, line))
    ELSE [pos |-> Seek(Tell(f, cur_pos), cur_pos), lineno |-> ln, dict |-> d, err |-> NoErr]

scan_config(f, p, ln, d) == ConfigLoop(f, p, ln, d)

(***************************************************************************)
(* scan_column_names                                                       *)
(***************************************************************************)
\* config_dict['num_params'] as scan_column_names sets it
HeaderNumParamsOffByOne(names) == Len(names)

HeaderNumParams(names) == Len(names) - 1

scan_column_names(f, p, ln, d) ==
    LET names == Fields(ReadLine(f, p)) IN
    [pos |-> Tell(f, p), lineno |-> ln + 1,
     dict |-> Put(Put(d, "column_names", TupleV(names)), "num_params", IntV(HeaderNumParams(names))),
     err |-> NoErr]

(***************************************************************************)
(* scan_warmup                                                             *)
(***************************************************************************)
RECURSIVE WarmupLoop(_, _, _, _)
WarmupLoop(f, cur_pos, ln, d) ==
    LET line == ReadLine(f, cur_pos) IN
    IF NonEmpty(line) /\ ~StartsWithHash(line)
    THEN WarmupLoop(f, Tell(f, cur_pos), ln + 1, d)
    ELSE [pos |-> Seek(Tell(f, cur_pos), cur_pos), lineno |-> ln, dict |-> d, err |-> NoErr]

scan_warmup(f, p, ln, d) ==
    IF "save_warmup" \notin DOMAIN d
    THEN [pos |-> p, lineno |-> ln, dict |-> d, err |-> NoErr]
    ELSE WarmupLoop(f, p, ln, d)

(***************************************************************************)
(* scan_metric                                                             *)
(***************************************************************************)
Raise(p, ln, d, e) == [pos |-> p, lineno |-> ln, dict |-> d, err |-> e]

\* the loop over the rows 2..num_params of a dense inverse mass matrix
RECURSIVE MatrixLoop(_, _, _, _, _, _)
MatrixLoop(f, p, ln, d, i, num_params) ==
    IF i >= num_params THEN [pos |-> p, lineno |-> ln, dict |-> d, err |-> NoErr]
    ELSE IF NumFields(ReadLine(f, p)) # num_params
         THEN Raise(Tell(f, p), ln + 1, d,
                    ValueError("invalid or missing mass matrix specification", ln + 1, 0, 0))
         ELSE MatrixLoop(f, Tell(f, p), ln + 1, d, i + 1, num_params)

\* config_dict['num_params'] as scan_metric sets it from the first matrix line
MetricNumParamsKept(d, line) == d["num_params"]

MetricNumParams(d, line) == IntV(NumFields(line))

scan_metric(f, p, ln, d) ==
    LET d1 == IF "metric" \notin DOMAIN d THEN Put(d, "metric", Str("diag_e")) ELSE d
        metric == d1["metric"].s
        l1 == ReadLine(f, p)
        p1 == Tell(f, p)
        l2 == ReadLine(f, p1)
        p2 == Tell(f, p1)
        l3 == ReadLine(f, p2)
        p3 == Tell(f, p2)
        l4 == ReadLine(f, p3)
        p4 == Tell(f, p3)
        d2 == Put(d1, "num_params", MetricNumParams(d1, l4))
    IN  IF l1.kind # "adapt"
        THEN Raise(p1, ln + 1, d1, ValueError("expecting metric", ln + 1, 0, 0))
        ELSE IF NumEqParts(l2) # 2
        THEN Raise(p2, ln + 2, d1, ValueError("unpack", 0, 0, 0))
        ELSE IF l2.kind # "step"
        THEN Raise(p2, ln + 2, d1, ValueError("expecting stepsize", ln + 2, 0, 0))
        ELSE IF ~l2.num
        THEN Raise(p2, ln + 2, d1, ValueError("invalid stepsize", ln + 2, 0, 0))
        ELSE IF ~(\/ metric = "diag_e" /\ l3.kind = "diag"
                  \/ metric = "dense_e" /\ l3.kind = "dense")
        THEN Raise(p3, ln + 3, d1,
                   ValueError("invalid or missing mass matrix specification", ln + 3, 0, 0))
        ELSE IF metric = "diag_e"
        THEN [pos |-> p4, lineno |-> ln + 4, dict |-> d2, err |-> NoErr]
        ELSE MatrixLoop(f, p4, ln + 4, d2, 1, d2["num_params"].n)

(***************************************************************************)
(* scan_draws                                                              *)
(***************************************************************************)
\* the test of scan_draws on the fields of one draw
BadDrawNeverFound(fields, num_cols) == FALSE

BadDraw(fields, num_cols) == Len(fields) # num_cols

\* draws_found += 1
DrawsFoundKept(draws_found) == draws_found

NextDrawsFound(draws_found) == draws_found + 1

RECURSIVE DrawsLoop(_, _, _, _, _, _, _)
DrawsLoop(f, cur_pos, ln, d, draws_found, first_draw, num_cols) ==
    LET line == ReadLine(f, cur_pos) IN
    IF NonEmpty(line) /\ ~StartsWithHash(line)
    THEN IF BadDraw(Fields(line), num_cols)
         THEN Raise(Tell(f, cur_pos), ln + 1, d,
                    ValueError("bad draw", ln + 1, num_cols, NumFields(line)))
         ELSE IF first_draw = NoneV /\ ~line.num
         THEN Raise(Tell(f, cur_pos), ln + 1, d,
                    ValueError("could not convert string to float", 0, 0, 0))
         ELSE DrawsLoop(f, Tell(f, cur_pos), ln + 1, d, NextDrawsFound(draws_found),
                        IF first_draw = NoneV THEN ArrayV(Fields(line)) ELSE first_draw,
                        num_cols)
    ELSE [pos |-> Seek(Tell(f, cur_pos), cur_pos), lineno |-> ln,
          dict |-> Put(Put(d, "draws", IntV(draws_found)), "first_draw", first_draw),
          err |-> NoErr]

scan_draws(f, p, ln, d) ==
    DrawsLoop(f, p, ln, d, 0, NoneV, Len(d["column_names"].seq))

(***************************************************************************)
(* check_csv, after scan_stan_csv has returned meta                        *)
(***************************************************************************)
\* int(math.ceil(a / b)) for ints a >= 0, b > 0
CeilDiv(a, b) == (a + b - 1) \div b

\* draws_spec / meta['thin']: the operands' types decide
\* [err |-> the exception raised or NoErr, val |-> draws_spec]
DrawsSpec(meta, optimizing) ==
    IF optimizing THEN [err |-> NoErr, val |-> 1]
    ELSE IF "num_samples" \in DOMAIN meta /\ meta["num_samples"].ty = "str"
            /\ ~IsNumeral(meta["num_samples"].s)
    THEN [err |-> ValueError("invalid literal for int()", 0, 0, 0), val |-> 0]
    ELSE LET draws_spec == IF "num_samples" \in DOMAIN meta
                           THEN PyInt(meta["num_samples"]) ELSE 1000
         IN  IF "thin" \notin DOMAIN meta THEN [err |-> NoErr, val |-> draws_spec]
             ELSE IF meta["thin"].ty = "int"
             THEN [err |-> NoErr, val |-> CeilDiv(draws_spec, meta["thin"].n)]
             ELSE [err |-> TypeError("unsupported operand type(s) for /: 'int' and 'str'"),
                   val |-> 0]

\* the exception check_csv raises on meta, or NoErr when it returns meta
check_csv(meta, optimizing) ==
    LET spec == DrawsSpec(meta, optimizing) IN
    IF spec.err # NoErr THEN spec.err
    ELSE IF meta["draws"].n # spec.val
    THEN ValueError("bad csv file", 0, spec.val, meta["draws"].n)
    ELSE NoErr

(***************************************************************************)
(* The stan_csv files of the model: a config section, a header, warmup     *)
(* rows, an adaptation block, draws and a trailing comment, each section   *)
(* well formed or malformed in the ways the scanner has a test for.        *)
(***************************************************************************)
SeqsUpTo(S, k) == UNION {[1..j -> S] : j \in 0..k}

Repeat(x, k) == [i \in 1..k |-> x]

Configs ==
    { <<>>,
      <<Cfg("save_warmup", "1", FALSE)>>,
      <<Cfg("metric", "dense_e", FALSE)>>,
      <<Cfg("save_warmup", "1", FALSE), Cfg("metric", "dense_e", FALSE)>>,
      <<Note, Cfg("file", "data.json", FALSE), Cfg("file", "output.csv", FALSE),
        Cfg("thin", "1", TRUE)>> }

Warmups(n) ==
    {Repeat(Row(n, TRUE), k) : k \in 0..MaxWarm}
        \cup {<<Row(n, TRUE), Blank, Row(n, TRUE)>>}

\* adaptation blocks: none, ones that fail a test of scan_metric, diagonal ones,
\* and dense ones of k fields a row with one row missing, all rows, one row extra
Metrics ==
    { <<>>,
      <<Step(TRUE), DiagLabel, Mat(1)>>,
      <<Adapt, Note, DiagLabel, Mat(1)>>,
      <<Adapt, Cfg("thin", "2", FALSE), DiagLabel, Mat(1)>>,
      <<Adapt, Step(FALSE), DiagLabel, Mat(1)>> }
        \cup {<<Adapt, Step(TRUE), DiagLabel, Mat(k)>> : k \in 1..MaxCols}
        \cup {<<Adapt, Step(TRUE), DenseLabel>> \o Repeat(Mat(k), m) :
                 k \in 1..MaxCols, m \in 0..(MaxCols + 1)}

DenseRowsNear(m) == m[3] = DenseLabel => Len(m) - 3 \in (m[4].n - 1)..(m[4].n + 1)

\* a draw with the header's number of fields, one that is no number, one with a
\* field missing (or one too many under a one-column header), and a blank line
DrawLines(n) ==
    {Row(n, TRUE), Row(n, FALSE), Row(IF n > 1 THEN n - 1 ELSE n + 1, TRUE), Blank}

Tails == {<<>>, <<Note>>}

\* every shape of warmup and draw section, around no or a diagonal adaptation block
SectionFiles ==
    UNION { { c \o <<Row(n, FALSE)>> \o w \o m \o dr \o t :
                c \in Configs, w \in Warmups(n),
                m \in {<<>>, <<Adapt, Step(TRUE), DiagLabel, Mat(1)>>},
                dr \in SeqsUpTo(DrawLines(n), MaxDraws), t \in Tails }
            : n \in 1..MaxCols }

\* every adaptation block, before at most one draw
MetricFiles ==
    UNION { { c \o <<Row(n, FALSE)>> \o w \o m \o dr :
                c \in {<<>>, <<Cfg("metric", "dense_e", FALSE)>>},
                w \in {<<>>, <<Row(n, TRUE)>>},
                m \in {x \in Metrics : Len(x) > 3 => DenseRowsNear(x)},
                dr \in SeqsUpTo(DrawLines(n), 1) }
            : n \in 1..MaxCols }

\* files that record num_samples and thin, with 0..MaxSamples draws
SampleConfigs ==
    { ns \o th :
        ns \in {<<>>} \cup {<<Cfg("num_samples", Digits[k], FALSE)>> : k \in 1..MaxSamples},
        th \in {<<>>, <<Cfg("thin", "1", TRUE)>>}
                  \cup {<<Cfg("thin", Digits[k], FALSE)>> : k \in 1..2} }

SampledFiles ==
    { c \o <<Row(2, FALSE)>> \o m \o Repeat(Row(2, TRUE), k) :
        c \in SampleConfigs, m \in {<<>>, <<Adapt, Step(TRUE), DiagLabel, Mat(1)>>},
        k \in 0..MaxSamples }

Files == SectionFiles \cup MetricFiles \cup SampledFiles

(***************************************************************************)
(* check_csv(path, is_optimizing, is_sampling): one action per call it     *)
(* makes, in the order of scan_stan_csv.                                   *)
(***************************************************************************)
DumpIdle ==
    /\ data = <<>>
    /\ text = <<>>
    /\ loaded = [ret |-> "None", d |-> EmptyDict, err |-> NoErr]
    /\ mfile = [json |-> FALSE, doc |-> EmptyDict, lines |-> <<>>]
    /\ dims = <<>>
    /\ dpc = "idle"
    /\ derr = NoErr

Init ==
    /\ file \in Files
    /\ is_sampling \in BOOLEAN
    /\ is_optimizing \in BOOLEAN
    /\ pos = 0
    /\ lineno = 0
    /\ dict = EmptyDict
    /\ pc = "scan_config"
    /\ err = NoErr
    /\ pre = <<>>
    /\ DumpIdle

\* the state after a sub-scan that returned r, or raised r.err
SubScan(op, r, next) ==
    /\ pre' = Append(pre, [op |-> op, pos |-> pos, lineno |-> lineno, dict |-> dict])
    /\ pos' = r.pos
    /\ lineno' = r.lineno
    /\ dict' = r.dict
    /\ err' = r.err
    /\ pc' = IF r.err = NoErr THEN next ELSE "raised"
    /\ UNCHANGED <<file, is_sampling, is_optimizing>>
    /\ UNCHANGED dumpVars

ScanConfig ==
    /\ pc = "scan_config"
    /\ SubScan("scan_config", scan_config(file, pos, lineno, dict), "scan_column_names")

ScanColumnNames ==
    /\ pc = "scan_column_names"
    /\ SubScan("scan_column_names", scan_column_names(file, pos, lineno, dict), "scan_warmup")

ScanWarmup ==
    /\ pc = "scan_warmup"
    /\ SubScan("scan_warmup", scan_warmup(file, pos, lineno, dict),
               IF is_sampling THEN "scan_metric" ELSE "scan_draws")

ScanMetric ==
    /\ pc = "scan_metric"
    /\ SubScan("scan_metric", scan_metric(file, pos, lineno, dict), "scan_draws")

ScanDraws ==
    /\ pc = "scan_draws"
    /\ SubScan("scan_draws", scan_draws(file, pos, lineno, dict), "check")

CheckCsv ==
    /\ pc = "check"
    /\ pre' = Append(pre, [op |-> "check_csv", pos |-> pos, lineno |-> lineno, dict |-> dict])
    /\ err' = check_csv(dict, is_optimizing)
    /\ pc' = IF err' = NoErr THEN "returned" ELSE "raised"
    /\ UNCHANGED <<file, is_sampling, is_optimizing, pos, lineno, dict>>
    /\ UNCHANGED dumpVars

Next ==
    \/ ScanConfig
    \/ ScanColumnNames
    \/ ScanWarmup
    \/ ScanMetric
    \/ ScanDraws
    \/ CheckCsv

Spec == Init /\ [][Next]_vars

(***************************************************************************)
(* The Rdump codec.  A line of a dump file is a sequence of tokens: names, *)
(* numerals and the punctuation of the format.  A numeral n is written     *)
(* "n" or "n.0" (dot), with or without R's long-int suffix "L".            *)
(***************************************************************************)
Id(s) == [t |-> "id", s |-> s, n |-> 0, dot |-> FALSE, L |-> FALSE]
Sym(s) == [t |-> "sym", s |-> s, n |-> 0, dot |-> FALSE, L |-> FALSE]
Num(n, dot, long) == [t |-> "num", s |-> "", n |-> n, dot |-> dot, L |-> long]
\* text that is no name, no numeral and no punctuation of the format, e.g. "[5]"
Junk(s) == [t |-> "junk", s |-> s, n |-> 0, dot |-> FALSE, L |-> FALSE]

Arrow == Sym("<-")
Comma == Sym(",")
Close == Sym(")")
DQuote == Sym("\"")

(***************************************************************************)
(* Python and numpy values: int and float scalars, lists of numbers, and   *)
(* ndarrays, held as their shape and their elements in numpy's own (row    *)
(* major) order, the order of val.flat.  Numbers are integers; the type    *)
(* says whether str() writes "n" or "n.0".                                 *)
(***************************************************************************)
PyScalar(ty, n) == [ty |-> ty, dtype |-> ty, shape |-> <<>>, elems |-> <<n>>]
PyList(q) == [ty |-> "list", dtype |-> "int", shape |-> <<Len(q)>>, elems |-> q]
NdArray(dtype, shape, elems) == [ty |-> "ndarray", dtype |-> dtype, shape |-> shape, elems |-> elems]

RECURSIVE Prod(_)
Prod(q) == IF q = <<>> THEN 1 ELSE Head(q) * Prod(Tail(q))

\* val.size
Size(v) == Prod(v.shape)

\* the offset in val.flat of the element at index idx (0-based) of an array of this shape
COffset(idx, shape) ==
    LET RECURSIVE Off(_)
        Off(j) == IF j > Len(shape) THEN 0
                  ELSE idx[j] * Prod(SubSeq(shape, j + 1, Len(shape))) + Off(j + 1)
    IN  Off(1)

\* the index whose position in column-major (order='F') enumeration is p
FIndex(p, shape) ==
    [j \in 1..Len(shape) |-> (p \div Prod(SubSeq(shape, 1, j - 1))) % shape[j]]

\* the index whose position in row-major (order='C') enumeration is q
CIndex(q, shape) ==
    [j \in 1..Len(shape) |-> (q \div Prod(SubSeq(shape, j + 1, Len(shape)))) % shape[j]]

\* the position of index idx in column-major enumeration
FOffset(idx, shape) ==
    LET RECURSIVE Off(_)
        Off(j) == IF j > Len(shape) THEN 0
                  ELSE idx[j] * Prod(SubSeq(shape, 1, j - 1)) + Off(j + 1)
    IN  Off(1)

\* list(val.flat)
Flat(v) == v.elems

\* list(val.T.flat): the transpose reverses the axes, so its row-major order is the
\* column-major order of val
TFlat(v) == [p \in 1..Size(v) |-> v.elems[1 + COffset(FIndex(p - 1, v.shape), v.shape)]]

\* np.array(vals).reshape(dims, order='C')
ReshapeC(vals, shape) == NdArray("float", shape, vals)

\* np.array(vals).reshape(dims, order='F')
ReshapeF(vals, shape) ==
    NdArray("float", shape,
            [q \in 1..Len(vals) |-> vals[1 + FOffset(CIndex(q - 1, shape), shape)]])

\* str(x) for a number x of this type
StrNum(ty, n) == Num(n, ty = "float", FALSE)

\* ', '.join(items): the items with a comma between them
RECURSIVE Join(_)
Join(items) ==
    IF items = <<>> THEN <<>>
    ELSE IF Len(items) = 1 THEN <<items[1]>>
    ELSE <<items[1], Comma>> \o Join(Tail(items))

(***************************************************************************)
(* _rdump_array and rdump                                                  *)
(***************************************************************************)
rdump_array(key, val) ==
    LET c == <<Sym("c(")>> \o Join([i \in 1..Size(val) |-> StrNum(val.dtype, TFlat(val)[i])])
                 \o <<Close>>
    IN  IF <<Size(val)>> = val.shape
        THEN <<Id(key), Arrow>> \o c
        ELSE <<Id(key), Arrow, Sym("structure(")>> \o c
                 \o <<Comma, Sym(".Dim="), Sym("c(")>>
                 \o Join([i \in 1..Len(val.shape) |-> Num(val.shape[i], FALSE, FALSE)])
                 \o <<Close, Close>>

\* np.asarray(val) for a list of numbers
AsArray(val) == NdArray(val.dtype, val.shape, val.elems)

\* the line rdump writes for one item of data
rdump_line(key, val) ==
    IF val.ty = "ndarray" /\ Size(val) > 1 THEN rdump_array(key, val)
    ELSE IF val.ty = "list" /\ Len(val.elems) > 1 THEN rdump_array(key, AsArray(val))
    ELSE IF val.ty = "list" THEN <<Id(key), Arrow, Junk("[...]")>>
    ELSE <<Id(key), Arrow, StrNum(val.dtype, val.elems[1])>>

\* data is the dict in its iteration order: a sequence of items [k, v]
rdump(d) == [i \in 1..Len(d) |-> rdump_line(d[i].k, d[i].v)]

(***************************************************************************)
(* parse_rdump_value                                                       *)
(***************************************************************************)
Parsed(v) == [err |-> NoErr, val |-> v]

ParseError(m) == [err |-> ValueError(m, 0, 0, 0), val |-> NoneV]

\* s.split(sep) on tokens
RECURSIVE Split(_, _)
Split(toks, sep) ==
    IF \A i \in 1..Len(toks) : toks[i] # sep THEN <<toks>>
    ELSE LET i == CHOOSE i \in 1..Len(toks) :
                      toks[i] = sep /\ \A j \in 1..(i - 1) : toks[j] # sep
         IN  <<SubSeq(toks, 1, i - 1)>> \o Split(SubSeq(toks, i + 1, Len(toks)), sep)

\* float(item) and int(item) succeed
IsFloatText(item) == Len(item) = 1 /\ item[1].t = "num" /\ ~item[1].L

IsIntText(item) == IsFloatText(item) /\ ~item[1].dot

\* the index of the first ')' after position i, or 0
FirstClose(toks, i) ==
    IF \E j \in (i + 1)..Len(toks) : toks[j] = Close
    THEN CHOOSE j \in (i + 1)..Len(toks) :
             toks[j] = Close /\ \A k \in (i + 1)..(j - 1) : toks[k] # Close
    ELSE 0

\* pat.match(rhs): [ok, vals, hasdims, dims], the groups as token sequences
MatchStructure(rhs) ==
    LET none == [ok |-> FALSE, vals |-> <<>>, hasdims |-> FALSE, dims |-> <<>>]
        i == FirstClose(rhs, 2)
        j == FirstClose(rhs, i + 3)
    IN  IF Len(rhs) < 2 \/ rhs[1] # Sym("structure(") \/ rhs[2] # Sym("c(") \/ i = 0
        THEN none
        ELSE IF /\ Len(rhs) >= i + 3
                /\ rhs[i + 1] = Comma /\ rhs[i + 2] = Sym(".Dim=") /\ rhs[i + 3] = Sym("c(")
                /\ j # 0 /\ Len(rhs) > j /\ rhs[j + 1] = Close
        THEN [ok |-> TRUE, vals |-> SubSeq(rhs, 3, i - 1), hasdims |-> TRUE,
              dims |-> SubSeq(rhs, i + 4, j - 1)]
        ELSE IF Len(rhs) > i /\ rhs[i + 1] = Close
        THEN [ok |-> TRUE, vals |-> SubSeq(rhs, 3, i - 1), hasdims |-> FALSE, dims |-> <<>>]
        ELSE none

\* [float(v) for v in text.split(',')]
Floats(txt) == LET items == Split(txt, Comma) IN [i \in 1..Len(items) |-> items[i][1].n]

AllFloats(txt) == \A i \in 1..Len(Split(txt, Comma)) : IsFloatText(Split(txt, Comma)[i])

AllInts(txt) == \A i \in 1..Len(Split(txt, Comma)) : IsIntText(Split(txt, Comma)[i])

\* the reshape of parse_rdump_value
Reshape(vals, shape) == ReshapeF(vals, shape)

\* '.' in rhs or 'e' in rhs
HasDotOrE(rhs) ==
    \E i \in 1..Len(rhs) : rhs[i].dot \/ rhs[i] \in {Sym(".Dim="), Sym("structure(")}

parse_rdump_value(rhs) ==
    IF rhs # <<>> /\ rhs[1] = Sym("structure(")
    THEN LET parse == MatchStructure(rhs) IN
         IF ~parse.ok THEN ParseError("rhs")
         ELSE IF ~AllFloats(parse.vals) THEN ParseError("could not convert string to float")
         ELSE IF ~parse.hasdims
         THEN Parsed(NdArray("float", <<Len(Floats(parse.vals))>>, Floats(parse.vals)))
         ELSE IF ~AllInts(parse.dims) THEN ParseError("invalid literal for int()")
         ELSE IF Prod(Floats(parse.dims)) # Len(Floats(parse.vals))
         THEN ParseError("cannot reshape array")
         ELSE Parsed(Reshape(Floats(parse.vals), Floats(parse.dims)))
    ELSE IF rhs # <<>> /\ rhs[1] = Sym("c(") /\ rhs[Len(rhs)] = Close
    THEN LET items == SubSeq(rhs, 2, Len(rhs) - 1) IN
         IF ~AllFloats(items) THEN ParseError("could not convert string to float")
         ELSE Parsed(NdArray("float", <<Len(Floats(items))>>, Floats(items)))
    ELSE IF HasDotOrE(rhs)
    THEN IF IsFloatText(rhs) THEN Parsed(PyScalar("float", rhs[1].n))
         ELSE ParseError("could not convert string to float")
    ELSE IF IsIntText(rhs) THEN Parsed(PyScalar("int", rhs[1].n))
         ELSE ParseError("invalid literal for int()")

(***************************************************************************)
(* rload                                                                   *)
(***************************************************************************)
\* '<-' in line
HasArrow(line) == \E i \in 1..Len(line) : line[i] = Arrow

\* ''.join(lines[a:b]), 1-based and b included
RECURSIVE Concat(_, _, _)
Concat(lines, a, b) == IF a > b THEN <<>> ELSE lines[a] \o Concat(lines, a + 1, b)

\* the first line from idx on that holds '<-', or len(lines) + 1
NextVar(lines, idx) ==
    IF \E i \in idx..Len(lines) : HasArrow(lines[i])
    THEN CHOOSE i \in idx..Len(lines) :
             HasArrow(lines[i]) /\ \A j \in idx..(i - 1) : ~HasArrow(lines[j])
    ELSE Len(lines) + 1

\* lhs.replace('"', '')
StripQuotes(lhs) == SelectSeq(lhs, LAMBDA tok : tok # DQuote)

\* rhs.replace('L', '')
StripLong(rhs) == [i \in 1..Len(rhs) |-> [rhs[i] EXCEPT !.L = FALSE]]

\* the str a left-hand side is; the texts of the model have one name there
KeyOf(lhs) == IF Len(lhs) = 1 THEN lhs[1].s ELSE "?"

RloadReturn(d) == [ret |-> "dict", d |-> d, err |-> NoErr]

RloadNone == [ret |-> "None", d |-> EmptyDict, err |-> NoErr]

RloadRaise(e) == [ret |-> "raised", d |-> EmptyDict, err |-> e]

RECURSIVE RloadLoop(_, _, _)
RloadLoop(lines, start_idx, data_dict) ==
    LET next_var == NextVar(lines, start_idx + 1)
        parts == Split(Concat(lines, start_idx, next_var - 1), Arrow)
        value == parse_rdump_value(StripLong(parts[2]))
    IN  IF Len(parts) # 2 THEN RloadRaise(ValueError("unpack", 0, 0, 0))
        ELSE IF value.err # NoErr THEN RloadRaise(value.err)
        ELSE IF next_var > Len(lines)
        THEN RloadReturn(Put(data_dict, KeyOf(StripQuotes(parts[1])), value.val))
        ELSE RloadLoop(lines, next_var,
                       Put(data_dict, KeyOf(StripQuotes(parts[1])), value.val))

rload(lines) ==
    IF NextVar(lines, 1) > Len(lines) THEN RloadNone
    ELSE RloadLoop(lines, NextVar(lines, 1), EmptyDict)

(***************************************************************************)
(* read_metric and read_rdump_metric.  A metric file is JSON (its parsed   *)
(* document: a dict of numbers and nested lists) or a dump file.           *)
(***************************************************************************)
JNum(n) == [j |-> "num", n |-> n, items |-> <<>>]
JList(items) == [j |-> "list", n |-> 0, items |-> items]

\* np.asarray(x).shape for a number or a nested list of numbers
RECURSIVE NpShape(_)
NpShape(x) ==
    IF x.j = "num" THEN <<>>
    ELSE IF x.items = <<>> THEN <<0>>
    ELSE <<Len(x.items)>> \o NpShape(x.items[1])

JsonFile(doc) == [json |-> TRUE, doc |-> doc, lines |-> <<>>]
DumpFile(lines) == [json |-> FALSE, doc |-> EmptyDict, lines |-> lines]

BadMetric == ValueError("bad or missing entry \"inv_metric\"", 0, 0, 0)

MetricReturn(shape) == [err |-> NoErr, dims |-> shape]

MetricRaise(e) == [err |-> e, dims |-> <<>>]

read_rdump_metric(lines) ==
    LET metric_dict == rload(lines) IN
    IF metric_dict.ret = "raised" THEN MetricRaise(metric_dict.err)
    ELSE IF metric_dict.ret = "None"
    THEN MetricRaise(TypeError("argument of type 'NoneType' is not iterable"))
    ELSE IF ~("inv_metric" \in DOMAIN metric_dict.d
              /\ metric_dict.d["inv_metric"].ty = "ndarray")
    THEN MetricRaise(BadMetric)
    ELSE MetricReturn(metric_dict.d["inv_metric"].shape)

read_metric(mf) ==
    IF mf.json
    THEN IF "inv_metric" \in DOMAIN mf.doc
         THEN MetricReturn(NpShape(mf.doc["inv_metric"]))
         ELSE MetricRaise(BadMetric)
    ELSE read_rdump_metric(mf.lines)

(***************************************************************************)
(* The codec's inputs and calls.                                           *)
(***************************************************************************)
MaxDim == 3
MaxRank == 3

Shapes == UNION {[1..r -> 1..MaxDim] : r \in 1..MaxRank}

\* the array of this shape whose elements are 1, 2, ... in val.flat order
Filled(dtype, shape) == NdArray(dtype, shape, [i \in 1..Prod(shape) |-> i])

Values ==
    {PyScalar("int", 7), PyScalar("float", 7), PyList(<<7>>), PyList(<<7, 8>>)}
        \cup {Filled(dtype, shape) : dtype \in {"int", "float"}, shape \in Shapes}

FewValues ==
    {PyScalar("int", 7), Filled("float", <<1>>), Filled("int", <<2>>),
     Filled("float", <<2, 1>>)}

Item(k, v) == [k |-> k, v |-> v]

\* the dicts handed to rdump
Mappings ==
    {<<>>}
        \cup {<<Item("x", v)>> : v \in Values}
        \cup {<<Item("y", v), Item("inv_metric", w)>> : v \in FewValues, w \in FewValues}

Assign(name, rhs) == <<Id(name), Arrow>> \o rhs

CVector(nums) == <<Sym("c(")>> \o Join(nums) \o <<Close>>

Structure(nums, shape) ==
    <<Sym("structure(")>> \o CVector(nums) \o <<Comma, Sym(".Dim=")>> \o CVector(shape)
        \o <<Close>>

Ints(q) == [i \in 1..Len(q) |-> Num(q[i], FALSE, FALSE)]

\* dump files as written by hand or by R
HandTexts ==
    { <<Assign("x", <<Num(v, dot, long)>>)>> : v \in 1..2, dot \in BOOLEAN, long \in BOOLEAN }
    \cup { <<Assign("x", CVector(<<Num(v, dot, FALSE)>>))>> : v \in 1..2, dot \in BOOLEAN }
    \cup { <<Assign("x", Structure(Ints(<<1, 4, 2, 5, 3, 6>>), Ints(shape)))>> :
             shape \in {<<2, 3>>, <<3, 2>>, <<6, 1>>, <<1, 2, 3>>, <<2, 2>>} }
    \cup { <<>>,
           <<<<Junk("text")>>>>,
           <<<<DQuote, Id("x"), DQuote, Arrow, Num(5, FALSE, TRUE)>>>>,
           <<Assign("x", <<Sym("structure(")>> \o CVector(Ints(<<1, 2>>)) \o <<Close>>)>>,
           <<Assign("x", <<Sym("structure(")>> \o CVector(Ints(<<1, 2>>)))>>,
           <<Assign("x", <<Sym("c("), Close>>)>>,
           <<Assign("x", <<Junk("text")>>)>>,
           <<Assign("x", <<Num(1, FALSE, FALSE), Arrow, Num(2, FALSE, FALSE)>>)>>,
           <<Assign("x", <<Sym("structure("), Sym("c("), Num(1, FALSE, FALSE), Comma,
                           Num(2, FALSE, FALSE)>>),
             <<Num(3, FALSE, FALSE), Comma, Num(4, FALSE, FALSE), Close, Comma>>,
             <<Sym(".Dim=")>> \o CVector(Ints(<<2, 2>>)) \o <<Close>>,
             Assign("y", <<Num(1, TRUE, FALSE)>>)>> }

MaxLines == 3

\* the lines the segmentation is tried on: lines with '<-' and lines without
SegmentLines ==
    { Assign("x", <<Num(1, FALSE, FALSE)>>),
      <<DQuote, Id("x"), DQuote, Arrow, Num(2, TRUE, FALSE)>>,
      Assign("y", <<Sym("c("), Num(1, FALSE, FALSE), Comma>>),
      Assign("y", <<Sym("structure(")>> \o CVector(Ints(<<1>>))
                       \o <<Close, Arrow, Num(3, FALSE, FALSE)>>),
      <<Num(2, FALSE, FALSE), Close>>,
      <<Num(2, FALSE, FALSE), Comma>>,
      <<Junk("text")>> }

\* dump files of up to MaxLines such lines
SegmentTexts == UNION {[1..n -> SegmentLines] : n \in 1..MaxLines}

\* metric files
MetricInputs ==
    { JsonFile(doc) :
        doc \in { EmptyDict,
                  [k \in {"inv_metric"} |-> JNum(5)],
                  [k \in {"inv_metric"} |-> JList(<<JNum(1), JNum(2)>>)],
                  [k \in {"inv_metric"} |->
                      JList(<<JList(<<JNum(1), JNum(0)>>), JList(<<JNum(0), JNum(1)>>)>>)],
                  [k \in {"stepsize"} |-> JList(<<JNum(1), JNum(2)>>)] } }
    \cup
    { DumpFile(lines) :
        lines \in { <<>>,
                    <<<<Junk("text")>>>>,
                    <<Assign("inv_metric", <<Num(5, FALSE, FALSE)>>)>>,
                    <<Assign("inv_metric", CVector(Ints(<<1, 2>>)))>>,
                    <<Assign("inv_metric", Structure(Ints(<<1, 0, 0, 1>>), Ints(<<2, 2>>)))>>,
                    <<Assign("stepsize", CVector(Ints(<<1, 2>>)))>>,
                    <<Assign("stepsize", <<Num(1, TRUE, FALSE)>>),
                      Assign("inv_metric", CVector(Ints(<<1, 2, 3>>)))>> } }

NotLoaded == [ret |-> "None", d |-> EmptyDict, err |-> NoErr]

NoFile == DumpFile(<<>>)

CsvIdle ==
    /\ file = <<>>
    /\ is_sampling = FALSE
    /\ is_optimizing = FALSE
    /\ pos = 0
    /\ lineno = 0
    /\ dict = EmptyDict
    /\ pc = "idle"
    /\ err = NoErr
    /\ pre = <<>>

InitDump ==
    /\ CsvIdle
    /\ loaded = NotLoaded
    /\ dims = <<>>
    /\ derr = NoErr
    /\ \/ data \in Mappings /\ text = <<>> /\ mfile = NoFile /\ dpc = "rdump"
       \/ data = <<>> /\ text \in HandTexts \cup SegmentTexts /\ mfile = NoFile
             /\ dpc = "rload"
       \/ data = <<>> /\ text = <<>> /\ mfile \in MetricInputs /\ dpc = "read_metric"

\* rdump(path, data)
Rdump ==
    /\ dpc = "rdump"
    /\ text' = rdump(data)
    /\ dpc' = "rload"
    /\ UNCHANGED <<data, loaded, mfile, dims, derr>>
    /\ UNCHANGED csvVars

\* rload(fname)
Rload ==
    /\ dpc = "rload"
    /\ loaded' = rload(text)
    /\ derr' = loaded'.err
    /\ dpc' = IF loaded'.err = NoErr THEN "loaded" ELSE "raised"
    /\ UNCHANGED <<data, text, mfile, dims>>
    /\ UNCHANGED csvVars

\* read_metric(path)
ReadMetric ==
    /\ dpc = "read_metric"
    /\ dims' = read_metric(mfile).dims
    /\ derr' = read_metric(mfile).err
    /\ dpc' = IF derr' = NoErr THEN "returned" ELSE "raised"
    /\ UNCHANGED <<data, text, loaded, mfile>>
    /\ UNCHANGED csvVars

NextDump ==
    \/ Rdump
    \/ Rload
    \/ ReadMetric

SpecDump == InitDump /\ [][NextDump]_vars

(***************************************************************************)
(* Properties of the scanner.                                              *)
(***************************************************************************)
\* the call made last, and whether it was op
LastCall == pre[Len(pre)]

Made(op) == Len(pre) > 0 /\ LastCall.op = op

Returned(op) == Made(op) /\ pc # "raised"

\* what the call op was entered with
EntryOf(op) == pre[CHOOSE i \in 1..Len(pre) : pre[i].op = op]

WasMade(op) == \E i \in 1..Len(pre) : pre[i].op = op

IsCommentLine(line) == line.kind \notin {"row", "blank"}

IsNoComment(line) == line.kind \in {"row", "blank"}

IsRow(line) == line.kind = "row"

\* the number of lines after cursor s up to the first that is not a P line
Run(f, s, P(_)) ==
    CHOOSE j \in 0..(Len(f) - s) :
        /\ \A i \in 1..j : P(f[s + i])
        /\ s + j < Len(f) => ~P(f[s + j + 1])

\* f with line x put in right after cursor s, and f without the line after cursor s
InsertLine(f, s, x) == SubSeq(f, 1, s) \o <<x>> \o SubSeq(f, s + 1, Len(f))

RemoveLine(f, s) == SubSeq(f, 1, s) \o SubSeq(f, s + 2, Len(f))

NumCols == Len(dict["column_names"].seq)

\* C1: check_csv expects 1 draw when is_optimizing, else ceil(num_samples / thin)
\* with num_samples 1000 and thin 1 when the key is absent; it returns the metadata
\* unchanged exactly when metadata['draws'] is that count, and otherwise raises the
\* draw-count error carrying the expected and the actual count.
C1_ExpectedDraws ==
    IF is_optimizing THEN 1
    ELSE CeilDiv(IF "num_samples" \in DOMAIN dict THEN PyInt(dict["num_samples"]) ELSE 1000,
                 IF "thin" \in DOMAIN dict THEN PyInt(dict["thin"]) ELSE 1)

C1_DrawCountChecked ==
    Made("check_csv") =>
        IF dict["draws"].n = C1_ExpectedDraws
        THEN pc = "returned" /\ err = NoErr /\ dict = LastCall.dict
        ELSE pc = "raised"
             /\ err = ValueError("bad csv file", 0, C1_ExpectedDraws, dict["draws"].n)

\* C2 (as claimed): if a line of the draw section has a number of fields other than
\* len(column_names), scan_draws fails and the error names that line's 1-based number
\* in the file, the expected and the found count; no such row is accepted.
C2_BadRows ==
    LET s == LastCall.pos
    IN  {i \in 1..Run(file, s, IsRow) : NumFields(file[s + i]) # NumCols}

C2_BadDrawNamed ==
    Made("scan_draws") =>
        IF C2_BadRows = {} THEN TRUE
        ELSE /\ pc = "raised"
             /\ \E i \in C2_BadRows :
                    err = ValueError("bad draw", LastCall.pos + i, NumCols,
                                     NumFields(file[LastCall.pos + i]))

\* C2 (amended): if a line of the draw section has a number of fields other than
\* len(column_names), scan_draws fails; the error names the first such line's
\* 1-based number in the file, the expected and the found count, unless the first
\* draw has the right count and a field that is no float, which fails the scan at
\* that draw with the conversion error; a scan that returns accepted no such row.
C2_BadDrawRejected ==
    Made("scan_draws") =>
        LET s == LastCall.pos
            first == CHOOSE i \in C2_BadRows : \A j \in C2_BadRows : i <= j
        IN  IF C2_BadRows = {} THEN TRUE
            ELSE /\ pc = "raised"
                 /\ IF first > 1 /\ ~file[s + 1].num
                    THEN err = ValueError("could not convert string to float", 0, 0, 0)
                    ELSE err = ValueError("bad draw", s + first, NumCols,
                                          NumFields(file[s + first]))

C2_Witness ==
    /\ Made("scan_draws")
    /\ err.msg = "bad draw"
    /\ err.lineno > LastCall.pos + 1
    /\ WasMade("scan_metric")
    /\ EntryOf("scan_warmup").pos < EntryOf("scan_metric").pos

\* C3 (as claimed): scan_config, scan_warmup and scan_draws consume exactly their
\* section and leave the cursor at the first line of the next one: scan_config takes
\* the leading comment lines; scan_warmup, when save_warmup was recorded, takes the W
\* lines up to the first comment line (or the end of the file), advances lineno by W,
\* and one warmup line more or less moves the cursor by one line; without save_warmup
\* it takes nothing; scan_draws takes the lines up to the next comment line.
C3_Positioned(IsSectionLine(_)) ==
    /\ Made("scan_config") =>
           LET k == Run(file, LastCall.pos, IsCommentLine)
           IN  pos = LastCall.pos + k /\ lineno = LastCall.lineno + k
    /\ Made("scan_warmup") =>
           LET s == LastCall.pos
               w == Run(file, s, IsSectionLine)
               d == LastCall.dict
           IN  IF "save_warmup" \in DOMAIN d
               THEN /\ pos = s + w
                    /\ lineno = LastCall.lineno + w
                    /\ scan_warmup(InsertLine(file, s, Row(1, TRUE)), s, 0, d).pos = pos + 1
                    /\ w > 0 => scan_warmup(RemoveLine(file, s), s, 0, d).pos = pos - 1
               ELSE pos = s /\ lineno = LastCall.lineno
    /\ Returned("scan_draws") =>
           LET k == Run(file, LastCall.pos, IsSectionLine)
           IN  pos = LastCall.pos + k /\ lineno = LastCall.lineno + k

C3_SectionsEndAtComment == C3_Positioned(IsNoComment)

\* C3 (amended): as claimed, with the warmup and the draw section ending at the first
\* comment line, blank line or end of file: the cursor is left on that line.
C3_SectionsEndAtCommentOrBlank == C3_Positioned(IsRow)

C3_Witness ==
    /\ Made("scan_warmup")
    /\ "save_warmup" \in DOMAIN dict
    /\ pos = LastCall.pos + 2
    /\ pos < Len(file)
    /\ file[pos + 1] = Adapt

\* C4 (as claimed): after the header scan num_params is len(column_names) - 1, and a
\* scan that returns has num_params = len(column_names) - 1 (a metric block with
\* another count is rejected).
C4_NumParamsIsHeaderCount ==
    /\ Made("scan_column_names") => dict["num_params"] = IntV(NumCols - 1)
    /\ Returned("scan_draws") => dict["num_params"] = IntV(NumCols - 1)

\* C4 (amended): after the header scan num_params is len(column_names) - 1; the
\* metric scan overwrites it with the number of comma-separated entries of the first
\* inverse-mass-matrix line and does not compare the two; a scan that returns has
\* num_params = that number when is_sampling, and len(column_names) - 1 otherwise.
C4_NumParamsSource ==
    /\ Made("scan_column_names") => dict["num_params"] = IntV(NumCols - 1)
    /\ Returned("scan_metric") =>
           dict["num_params"] = IntV(NumFields(ReadLine(file, LastCall.pos + 3)))
    /\ Returned("scan_draws") =>
           dict["num_params"] =
               IF is_sampling
               THEN IntV(NumFields(ReadLine(file, EntryOf("scan_metric").pos + 3)))
               ELSE IntV(NumCols - 1)

C4_Witness ==
    /\ Returned("scan_draws")
    /\ is_sampling
    /\ dict["draws"].n > 0
    /\ dict["num_params"].n # NumCols - 1

\* C5: with metric dense_e a metric scan that returns has consumed, after the label
\* line, exactly N comment lines of N fields each, N the field count of the first;
\* so a block with a matrix line missing is rejected, and no draw is taken for it.
C5_DenseMatrixIsSquare ==
    (Returned("scan_metric") /\ dict["metric"] = Str("dense_e")) =>
        LET s == LastCall.pos + 3
            N == dict["num_params"].n
        IN  /\ pos = s + N
            /\ \A i \in 1..N : s + i <= Len(file) /\ file[s + i] = Mat(N)

\* C10 (as claimed): after a scan_draws that returns, draws is the number of lines
\* from the cursor up to the next comment line or the end of the file, first_draw is
\* the first of them (None when there is none), and the cursor is before that
\* comment line.
C10_Draws(IsSectionLine(_)) ==
    Returned("scan_draws") =>
        LET s == LastCall.pos
            k == Run(file, s, IsSectionLine)
        IN  /\ dict["draws"] = IntV(k)
            /\ dict["first_draw"] = IF k = 0 THEN NoneV ELSE ArrayV(Fields(file[s + 1]))
            /\ pos = s + k

C10_DrawsUpToComment == C10_Draws(IsNoComment)

\* C10 (amended): as claimed, with the draws ending at the next comment line, blank
\* line or end of file: draws counts the non-blank, non-comment lines before it.
C10_DrawsUpToCommentOrBlank == C10_Draws(IsRow)

C10_Witness ==
    /\ Returned("scan_draws")
    /\ dict["draws"].n = 2
    /\ pos < Len(file)
    /\ file[pos + 1] = Note

(***************************************************************************)
(* Properties of the codec.                                                *)
(***************************************************************************)
\* rload has been applied to the file rdump wrote for data
RoundTripDone == dpc \in {"loaded", "raised"} /\ text = rdump(data)

Keys(d) == {d[i].k : i \in 1..Len(d)}

\* the 0-based indices of an array of this shape
Indices(shape) ==
    {idx \in [1..Len(shape) -> 0..MaxDim] : \A j \in 1..Len(shape) : idx[j] < shape[j]}

\* val[idx]
At(val, idx) == val.elems[1 + COffset(idx, val.shape)]

\* i1 + d1*i2 + d1*d2*i3 + ...
RECURSIVE FirstIndexFastest(_, _)
FirstIndexFastest(idx, shape) ==
    IF idx = <<>> THEN 0
    ELSE Head(idx) + Head(shape) * FirstIndexFastest(Tail(idx), Tail(shape))

SameArray(a, b) == a.shape = b.shape /\ a.elems = b.elems

\* C6 (as claimed): rload of the file rdump(m) wrote returns a mapping with the keys
\* of m and, for each key, a value of the same shape with the same elements at the
\* same indices.
C6_RoundTripKeepsShapes ==
    RoundTripDone =>
        /\ loaded.ret = "dict"
        /\ DOMAIN loaded.d = Keys(data)
        /\ \A i \in 1..Len(data) : SameArray(loaded.d[data[i].k], data[i].v)

\* What the round trip does return (C6 does not hold as claimed): None for the empty
\* mapping; a ValueError when some value is a list of one number, which rdump writes
\* as its str; otherwise a mapping with the keys of m, where a value of more than one
\* element has its shape and its elements at the same indices, and a value of one
\* element (a scalar or an array of any shape) is a scalar, that element.
C6_RoundTripCollapsesSingletons ==
    RoundTripDone =>
        IF data = <<>> THEN loaded.ret = "None"
        ELSE IF \E i \in 1..Len(data) : data[i].v.ty = "list" /\ Size(data[i].v) = 1
        THEN dpc = "raised" /\ derr.type = "ValueError"
        ELSE /\ loaded.ret = "dict"
             /\ DOMAIN loaded.d = Keys(data)
             /\ \A i \in 1..Len(data) :
                    LET v == data[i].v
                        w == loaded.d[data[i].k]
                    IN  IF Size(v) > 1 THEN w.ty = "ndarray" /\ SameArray(w, v)
                        ELSE w.shape = <<>> /\ w.elems = v.elems

C6_Witness ==
    /\ RoundTripDone
    /\ Len(data) = 2
    /\ data[1].v = Filled("float", <<2, 1>>)
    /\ data[2].v = Filled("float", <<1>>)
    /\ loaded.d["inv_metric"] = PyScalar("float", 1)
    /\ loaded.d["y"] = Filled("float", <<2, 1>>)

\* the numerals of a token sequence, as numbers
NumbersOf(toks) ==
    LET nums == SelectSeq(toks, LAMBDA tok : tok.t = "num")
    IN  [i \in 1..Len(nums) |-> nums[i].n]

\* the line is name <- structure(c(vals), .Dim = c(dims)) with these vals and dims
IsStructureLine(line, name, vals, shape) ==
    /\ Len(vals) > 0
    /\ Len(shape) > 0
    /\ Len(line) = 2 * Len(vals) + 2 * Len(shape) + 8
    /\ SubSeq(line, 1, 4) = <<Id(name), Arrow, Sym("structure("), Sym("c(")>>
    /\ NumbersOf(SubSeq(line, 5, 2 * Len(vals) + 3)) = vals
    /\ \A i \in 1..(Len(vals) - 1) : line[4 + 2 * i] = Comma
    /\ SubSeq(line, 2 * Len(vals) + 4, 2 * Len(vals) + 7)
           = <<Close, Comma, Sym(".Dim="), Sym("c(")>>
    /\ NumbersOf(SubSeq(line, 2 * Len(vals) + 8, Len(line) - 2)) = shape
    /\ \A i \in 1..(Len(shape) - 1) : line[2 * Len(vals) + 7 + 2 * i] = Comma
    /\ SubSeq(line, Len(line) - 1, Len(line)) = <<Close, Close>>

\* vals holds val[idx] at position i1 + d1*i2 + ... for every index idx
ColumnMajor(vals, val) ==
    /\ Len(vals) = Size(val)
    /\ \A idx \in Indices(val.shape) :
           vals[1 + FirstIndexFastest(idx, val.shape)] = At(val, idx)

\* the encoder's half of C7 for the arrays of data that Covered picks
C7_Encoded(Covered(_)) ==
    (dpc \in {"rload", "loaded", "raised"} /\ text = rdump(data)) =>
        \A i \in 1..Len(data) :
            (data[i].v.ty = "ndarray" /\ Len(data[i].v.shape) >= 2 /\ Covered(data[i].v)) =>
                LET nums == NumbersOf(text[i])
                    vals == SubSeq(nums, 1, Size(data[i].v))
                IN  /\ Len(nums) >= Size(data[i].v)
                    /\ IsStructureLine(text[i], data[i].k, vals, data[i].v.shape)
                    /\ ColumnMajor(vals, data[i].v)

\* the decoder's half of C7: a one-line structure literal with .Dim loads as the
\* array of that shape that holds flat position p at the index of position p
C7_Decoded ==
    dpc = "loaded" =>
        \A i \in 1..Len(text) :
            \A n \in 1..Len(text[i]) :
                LET nums == NumbersOf(text[i])
                    vals == SubSeq(nums, 1, n)
                    shape == SubSeq(nums, n + 1, Len(nums))
                IN  (n < Len(nums)
                       /\ IsStructureLine(text[i], text[i][1].s, vals, shape)) =>
                        /\ loaded.d[text[i][1].s].shape = shape
                        /\ ColumnMajor(vals, loaded.d[text[i][1].s])

AnyArray(val) == TRUE

SeveralElements(val) == Size(val) > 1

\* C7 (as claimed): every array of two or more dimensions is written as
\* structure(c(...), .Dim = c(d1, ..., dk)) with the dimensions in their order and
\* the element at index (i1, ..., ik) at flat position i1 + d1*i2 + d1*d2*i3 + ...;
\* the decoder puts flat position p of a structure literal with .Dim at that index.
C7_ColumnMajorEveryArray == C7_Encoded(AnyArray) /\ C7_Decoded

\* C7 (amended): as claimed for every array of two or more dimensions that has more
\* than one element; an array of one element is written as the scalar name <- value.
C7_ColumnMajorLayout == C7_Encoded(SeveralElements) /\ C7_Decoded

C7_Witness ==
    /\ RoundTripDone
    /\ data = <<Item("x", NdArray("int", <<2, 3>>, <<1, 2, 3, 4, 5, 6>>))>>
    /\ text = <<Assign("x", Structure(Ints(<<1, 4, 2, 5, 3, 6>>), Ints(<<2, 3>>)))>>
    /\ loaded.d["x"] = NdArray("float", <<2, 3>>, <<1, 2, 3, 4, 5, 6>>)

\* C8: decoding x <- c(v) gives the same value as decoding x <- v, a scalar.
C8_OneElementVectorIsScalar ==
    \A v \in 1..MaxDim, dot \in BOOLEAN :
        (dpc = "loaded" /\ text = <<Assign("x", CVector(<<Num(v, dot, FALSE)>>))>>) =>
            /\ loaded.d["x"] = rload(<<Assign("x", <<Num(v, dot, FALSE)>>)>>).d["x"]
            /\ loaded.d["x"].shape = <<>>

\* the metric file has an inv_metric entry that is a vector or an array
C9_HasArrayEntry ==
    IF mfile.json
    THEN "inv_metric" \in DOMAIN mfile.doc /\ mfile.doc["inv_metric"].j = "list"
    ELSE \E i \in 1..Len(mfile.lines) :
             /\ Len(mfile.lines[i]) > 2
             /\ mfile.lines[i][1] = Id("inv_metric")
             /\ mfile.lines[i][3] \in {Sym("c("), Sym("structure(")}

\* C9: read_metric raises the ValueError 'bad or missing entry "inv_metric"' when the
\* file has no inv_metric entry or one that is no vector or array, and otherwise
\* returns the entry's shape, of length 1 or 2; it raises nothing else.
C9_MetricShapeOrFormatError ==
    (dpc \in {"returned", "raised"} /\ data = <<>> /\ text = <<>>) =>
        IF C9_HasArrayEntry
        THEN dpc = "returned" /\ Len(dims) \in {1, 2}
        ELSE dpc = "raised" /\ derr = BadMetric

\* the lines of the text that hold '<-'
MarkerLines(lines) == {i \in 1..Len(lines) : \E j \in 1..Len(lines[i]) : lines[i][j] = Arrow}

\* the last line of the block that line i starts: the line before the next
\* marker line, or the last line of the text
BlockEnd(lines, i) ==
    IF \E j \in MarkerLines(lines) : j > i
    THEN (CHOOSE j \in MarkerLines(lines) :
              j > i /\ \A k \in MarkerLines(lines) : k > i => k >= j) - 1
    ELSE Len(lines)

RECURSIVE Joined(_, _, _)
Joined(lines, a, b) == IF a > b THEN <<>> ELSE Joined(lines, a, b - 1) \o lines[b]

\* the block that marker line i starts, as one line
Block(lines, i) == Joined(lines, i, BlockEnd(lines, i))

FirstArrow(toks) == CHOOSE j \in 1..Len(toks) : toks[j] = Arrow /\ \A k \in 1..(j - 1) : toks[k] # Arrow

\* the block split on its first '<-'
Identifier(toks) == KeyOf(StripQuotes(SubSeq(toks, 1, FirstArrow(toks) - 1)))

Expression(toks) == SubSeq(toks, FirstArrow(toks) + 1, Len(toks))

Decoded(toks) == parse_rdump_value(StripLong(Expression(toks)))

\* the blocks of the text, one per line, after the lines before the first marker
OneLinePerStatement(lines) ==
    LET marks == MarkerLines(lines)
        first == CHOOSE i \in marks : \A j \in marks : j >= i
        kept(i) == i < first \/ i \in marks
        n == Cardinality({i \in 1..Len(lines) : kept(i)})
        nth(m) == CHOOSE i \in 1..Len(lines) :
                      kept(i) /\ Cardinality({j \in 1..i : kept(j)}) = m
    IN  IF marks = {} THEN lines
        ELSE [m \in 1..n |-> IF nth(m) \in marks THEN Block(lines, nth(m)) ELSE lines[nth(m)]]

\* rload(text) has returned or raised
RloadDone == dpc \in {"loaded", "raised"} /\ data = <<>> /\ mfile = NoFile

\* the result is the mapping of the blocks' identifiers to their decoded
\* expressions, the last block of an identifier winning
C11_EntryPerIdentifier(lines) ==
    LET marks == MarkerLines(lines)
    IN  IF \E i \in marks : Decoded(Block(lines, i)).err # NoErr
        THEN loaded.ret = "raised" /\ loaded.err.type = "ValueError"
        ELSE /\ loaded.ret = "dict"
             /\ DOMAIN loaded.d = {Identifier(Block(lines, i)) : i \in marks}
             /\ \A i \in marks :
                    (\A j \in marks : j > i => Identifier(Block(lines, j)) # Identifier(Block(lines, i)))
                        => loaded.d[Identifier(Block(lines, i))] = Decoded(Block(lines, i)).val

\* C11: rload gives every text a mapping or a format error; the mapping has one
\* entry per identifier, decoded from the block that runs from the identifier's
\* marker line to the next marker line or EOF, split on its first '<-'; and a
\* statement spread over several lines loads as the same statement on one line.
C11_StatementSegmentation ==
    RloadDone =>
        /\ loaded.ret \in {"dict", "raised"}
        /\ loaded.ret = "raised" => loaded.err.type = "ValueError"
        /\ C11_EntryPerIdentifier(text)
        /\ loaded = rload(OneLinePerStatement(text))

\* What the segmentation does give (C11 does not hold as claimed): None for a text
\* with no marker line, a ValueError for a block that holds more than one '<-',
\* and otherwise what C11 says.
C11_SegmentationAsBuilt ==
    RloadDone =>
        /\ loaded = rload(OneLinePerStatement(text))
        /\ IF MarkerLines(text) = {} THEN loaded.ret = "None"
           ELSE IF \E i \in MarkerLines(text) :
                       Cardinality({j \in 1..Len(Block(text, i)) : Block(text, i)[j] = Arrow}) > 1
           THEN loaded.ret = "raised" /\ loaded.err.type = "ValueError"
           ELSE C11_EntryPerIdentifier(text)

\* a vector spread over three lines, after a first statement of the same text
C11_Witness ==
    /\ RloadDone
    /\ text = << <<DQuote, Id("x"), DQuote, Arrow, Num(2, TRUE, FALSE)>>,
                 Assign("y", <<Sym("c("), Num(1, FALSE, FALSE), Comma>>),
                 <<Num(2, FALSE, FALSE), Close>> >>
    /\ DOMAIN loaded.d = {"x", "y"}
    /\ loaded.d["y"] = NdArray("float", <<2>>, <<1, 2>>)

====
